---- MODULE Spec2Model ----
(***************************************************************************)
(* Model of max/nn/transformer/distributed_transformer.py:                 *)
(*   DistributedTransformer.__init__ / __call__  (the layer stack and the  *)
(*   logit extraction) and DistributedTransformerBlock.__init__ / __call__ *)
(*   (one block: norm, attention, residual, norm, MLP shards, reduction).  *)
(* Tensors are symbolic: a hidden state is the trace of layer steps that   *)
(* produced it, a gathered row remembers the token index it was taken from.*)
(* Python indices are kept 0-based as values; sequences are 1-based.       *)
(***************************************************************************)
EXTENDS Integers, Sequences, FiniteSets, TLC

VARIABLES
    args,                \* arguments handed to DistributedTransformer.__init__
    self,                \* the constructed DistributedTransformer
    pc,                  \* position in __init__ / __call__
    inp,                 \* arguments of the current __call__
    h,                   \* per-device hidden states
    kv_collections,      \* per-device cache handles
    input_row_offsets_,  \* row offsets distributed to the devices
    subgraphs,           \* compiled units built so far
    idx,                 \* loop index of the running loop of __call__
    result,              \* the tuple __call__ returned
    bargs,               \* arguments handed to DistributedTransformerBlock.__init__
    block,               \* the constructed DistributedTransformerBlock
    bpc,                 \* position in the block's __init__ / __call__
    binp,                \* arguments of the current block __call__
    attn_outs,           \* attention outputs of the block call
    hs,                  \* hidden states of the block call
    norm_outs,           \* post-attention norm outputs
    mlp_outs,            \* MLP partial outputs, then the reduced outputs
    log                  \* the steps the block call has performed, in order

vars == <<args, self, pc, inp, h, kv_collections, input_row_offsets_,
          subgraphs, idx, result,
          bargs, block, bpc, binp, attn_outs, hs, norm_outs, mlp_outs, log>>

stackVars == <<args, self, pc, inp, h, kv_collections, input_row_offsets_,
               subgraphs, idx, result>>

blockVars == <<bargs, block, bpc, binp, attn_outs, hs, norm_outs, mlp_outs, log>>

----------------------------------------------------------------------------
\* Bounds of the model.
MaxLayers == 2
MaxGroups == 2
MaxDev == 2
MaxSeqs == 2
MaxTok == 3

----------------------------------------------------------------------------
\* Helpers.
Min(a, b) == IF a <= b THEN a ELSE b

Range(s) == {s[i] : i \in 1..Len(s)}

\* Sequences over S of length at most n.
SeqUpTo(S, n) == UNION {[1..k -> S] : k \in 0..n}

\* Sequences over S without repeated elements.
NoRepeat(S) == {s \in SeqUpTo(S, Cardinality(S)) :
                   \A i, j \in 1..Len(s) : i # j => s[i] # s[j]}

\* zip(a, b): pairs by position, truncated to the shorter list.
Zip(a, b) == [k \in 1..Min(Len(a), Len(b)) |-> <<a[k], b[k]>>]

----------------------------------------------------------------------------
\* ReturnLogits
LAST_TOKEN == "last_token"
ALL == "all"
VARIABLE_ == "variable"
ReturnLogits == {LAST_TOKEN, ALL, VARIABLE_}

\* A layer is a DistributedTransformerBlock of one of two structures, or some
\* other Module.
Kinds == {"blockA", "blockB", "module"}
IsDistributedTransformerBlock(k) == k \in {"blockA", "blockB"}

NoModel == [layers |-> <<>>, devices |-> 0, return_logits |-> LAST_TOKEN,
            use_subgraphs |-> FALSE, subgraph_layer_groups |-> <<>>]
NoInput == [input_row_offsets |-> <<>>, kv_cache_inputs_per_dev |-> 0,
            return_n_logits |-> 0]

\* distribute_value(v, devices): one copy of v per device.
distribute_value(v, devices) == [d \in 1..devices |-> v]

----------------------------------------------------------------------------
\* Input sets.

\* A layer group: layer indices, the first one the template.
GroupSet == NoRepeat(0..(MaxLayers - 1))
GroupLists == SeqUpTo(GroupSet, MaxGroups)
LayerLists == SeqUpTo(Kinds, MaxLayers)

\* Non-decreasing row offsets starting at 0, for 1..MaxSeqs sequences.
OffsetsSet == {o \in UNION {[1..(n + 1) -> 0..MaxTok] : n \in 1..MaxSeqs} :
                  /\ o[1] = 0
                  /\ \A i \in 1..(Len(o) - 1) : o[i] <= o[i + 1]}

\* groups_is_none: subgraph_layer_groups is None.
ArgSet(layerLists, deviceCounts, modes, groupLists) ==
    {a \in [layers : layerLists, devices : deviceCounts,
            return_logits : modes, use_subgraphs : BOOLEAN,
            groups_is_none : BOOLEAN, subgraph_layer_groups : groupLists] :
        a.groups_is_none => a.subgraph_layer_groups = <<>>}

\* A call's arguments: kv_cache_inputs_per_dev is given by its length.
InputSet(offsetsSet, kvLengths) ==
    [input_row_offsets : offsetsSet, kv_cache_inputs_per_dev : kvLengths,
     return_n_logits : {1}]

----------------------------------------------------------------------------
\* DistributedTransformer.__init__

\* subgraph_layer_groups defaults to one group holding every layer.
DefaultGroups(layers) == << [k \in 1..Len(layers) |-> k - 1] >>

\* __init__ without the check of lines 169-172.
Transformer_init_AcceptsVariable ==
    /\ pc = "new"
    /\ pc' = "ready"
    /\ self' = [layers |-> args.layers,
                devices |-> args.devices,
                return_logits |-> args.return_logits,
                use_subgraphs |-> args.use_subgraphs,
                subgraph_layer_groups |->
                    IF args.groups_is_none THEN DefaultGroups(args.layers)
                    ELSE args.subgraph_layer_groups]
    /\ UNCHANGED blockVars
    /\ UNCHANGED <<args, inp, h, kv_collections, input_row_offsets_,
                   subgraphs, idx, result>>

Transformer_init ==
    /\ pc = "new"
    /\ LET groups == IF args.groups_is_none
                     THEN DefaultGroups(args.layers)
                     ELSE args.subgraph_layer_groups
       IN IF args.return_logits = VARIABLE_
          THEN /\ pc' = "ctor_error"      \* ValueError: no model is returned
               /\ self' = NoModel
          ELSE /\ pc' = "ready"
               /\ self' = [layers |-> args.layers,
                           devices |-> args.devices,
                           return_logits |-> args.return_logits,
                           use_subgraphs |-> args.use_subgraphs,
                           subgraph_layer_groups |-> groups]
    /\ UNCHANGED blockVars
    /\ UNCHANGED <<args, inp, h, kv_collections, input_row_offsets_,
                   subgraphs, idx, result>>

----------------------------------------------------------------------------
\* DistributedTransformer.__call__

\* embed_tokens(tokens, signal_buffers): one hidden state per device, holding
\* every token of the flattened batch; no layer applied yet.
embed_tokens(devices, ntok) ==
    [d \in 1..devices |-> [dev |-> d - 1, ntok |-> ntok, steps |-> <<>>]]

\* kv_collection_constructor applied to each element of kv_cache_inputs_per_dev.
MakeKVCollections(n) == [k \in 1..n |-> k - 1]

\* Lines 182-189: embedding, cache handles, distributed row offsets.
Call_begin(inputs) ==
    /\ pc = "ready"
    /\ \E i \in inputs :
        /\ inp' = i
        /\ h' = embed_tokens(self.devices,
                             i.input_row_offsets[Len(i.input_row_offsets)])
        /\ kv_collections' = MakeKVCollections(i.kv_cache_inputs_per_dev)
        /\ input_row_offsets_' =
               distribute_value(i.input_row_offsets, self.devices)
    /\ idx' = 0
    /\ pc' = IF self.use_subgraphs THEN "build" ELSE "layers"
    /\ UNCHANGED blockVars
    /\ UNCHANGED <<args, self, subgraphs, result>>

\* The build loop without the isinstance assertion of lines 207-209.
BuildSubgraph_NoBlockAssert ==
    /\ pc = "build"
    /\ idx < Len(self.subgraph_layer_groups)
    /\ LET layer_group == self.subgraph_layer_groups[idx + 1] IN
        IF \/ Len(layer_group) = 0
           \/ layer_group[1] >= Len(self.layers)
        THEN /\ pc' = "call_error"
             /\ UNCHANGED <<subgraphs, idx>>
        ELSE /\ subgraphs' = Append(subgraphs,
                    [name |-> idx,
                     kind |-> self.layers[layer_group[1] + 1],
                     template |-> layer_group[1]])
             /\ idx' = idx + 1
             /\ pc' = "build"
    /\ UNCHANGED blockVars
    /\ UNCHANGED <<args, self, inp, h, kv_collections, input_row_offsets_,
                   result>>

\* Lines 202-216: one iteration of the loop that builds a group's subgraph.
BuildSubgraph ==
    /\ pc = "build"
    /\ idx < Len(self.subgraph_layer_groups)
    /\ LET layer_group == self.subgraph_layer_groups[idx + 1] IN
        IF \/ Len(layer_group) = 0                      \* assert len > 0
           \/ layer_group[1] >= Len(self.layers)        \* IndexError
           \/ ~IsDistributedTransformerBlock(self.layers[layer_group[1] + 1])
        THEN /\ pc' = "call_error"
             /\ UNCHANGED <<subgraphs, idx>>
        ELSE /\ subgraphs' = Append(subgraphs,
                    [name |-> idx,
                     kind |-> self.layers[layer_group[1] + 1],
                     template |-> layer_group[1]])
             /\ idx' = idx + 1
             /\ pc' = "build"
    /\ UNCHANGED blockVars
    /\ UNCHANGED <<args, self, inp, h, kv_collections, input_row_offsets_,
                   result>>

BuildDone ==
    /\ pc = "build"
    /\ idx = Len(self.subgraph_layer_groups)
    /\ idx' = 0
    /\ pc' = "layers"
    /\ UNCHANGED blockVars
    /\ UNCHANGED <<args, self, inp, h, kv_collections, input_row_offsets_,
                   subgraphs, result>>

\* One transformer block applied to every device's hidden state: the result
\* depends on the block structure executed, the weights it binds and the
\* runtime layer index.
ApplyBlock(kind, weights, layer_idx, hh) ==
    [d \in 1..Len(hh) |->
        [hh[d] EXCEPT !.steps = Append(@, [kind |-> kind, weights |-> weights,
                                           layer_idx |-> layer_idx])]]

\* Lines 243-249 / 252-258: layer(ops.constant(idx), h, ...).
DirectCall(layers, i, hh) == ApplyBlock(layers[i + 1], i, i, hh)

\* The compiled unit bound to the weights of its template layer.
CallSubgraph_TemplateWeights(sg, i, hh) == ApplyBlock(sg.kind, sg.template, i, hh)

\* Lines 226-239: ops.call(subgraphs[group_idx], ops.constant(idx), ...,
\* prefix="layers.{idx}.").
CallSubgraph(sg, i, hh) == ApplyBlock(sg.kind, i, i, hh)

\* Lines 251-258: the direct-mode loop over layers 0..n-1.
RECURSIVE DirectStack(_, _, _)
DirectStack(layers, hh, n) ==
    IF n = 0 THEN hh
    ELSE DirectCall(layers, n - 1, DirectStack(layers, hh, n - 1))

\* Lines 221-240: the scan over the groups from position g, stopping at the
\* first group that holds i.
RECURSIVE ScanGroups(_, _, _, _, _)
ScanGroups(groups, sgs, hh, i, g) ==
    IF g > Len(groups)
    THEN [h |-> hh, has_subgraph |-> FALSE, group_idx |-> -1]
    ELSE IF i \in Range(groups[g])
         THEN [h |-> CallSubgraph(sgs[g], i, hh), has_subgraph |-> TRUE,
               group_idx |-> g - 1]
         ELSE ScanGroups(groups, sgs, hh, i, g + 1)

\* Lines 219-249: the body of the subgraph-mode loop for layer i.
SubgraphModeStep(slf, sgs, hh, i) ==
    LET r == ScanGroups(slf.subgraph_layer_groups, sgs, hh, i, 1) IN
    IF r.has_subgraph THEN r.h ELSE DirectCall(slf.layers, i, r.h)

\* Lines 219-258: one iteration of the loop over the layers.
LayerStep ==
    /\ pc = "layers"
    /\ idx < Len(self.layers)
    /\ h' = IF self.use_subgraphs
            THEN SubgraphModeStep(self, subgraphs, h, idx)
            ELSE DirectCall(self.layers, idx, h)
    /\ idx' = idx + 1
    /\ UNCHANGED blockVars
    /\ UNCHANGED <<args, self, pc, inp, kv_collections, input_row_offsets_,
                   subgraphs, result>>

LayersDone ==
    /\ pc = "layers"
    /\ idx = Len(self.layers)
    /\ pc' = "logits"
    /\ UNCHANGED blockVars
    /\ UNCHANGED <<args, self, inp, h, kv_collections, input_row_offsets_,
                   subgraphs, idx, result>>

\* input_row_offsets[:-1] - 1.
LastTokenIndices_FromStart(offsets) ==
    [i \in 1..(Len(offsets) - 1) |-> offsets[i] - 1]

\* input_row_offsets[1:].
LastTokenIndices_NoMinusOne(offsets) ==
    [i \in 1..(Len(offsets) - 1) |-> offsets[i + 1]]

\* Line 260: input_row_offsets[1:] - 1.
LastTokenIndices(offsets) ==
    [i \in 1..(Len(offsets) - 1) |-> offsets[i + 1] - 1]

\* ops.gather(t, indices, axis=0) on a hidden state: row i is token indices[i].
Gather(hd, indices) ==
    [i \in 1..Len(indices) |->
        [token |-> indices[i], dev |-> hd.dev, steps |-> hd.steps]]

\* Every row of a hidden state.
AllRows(hd) == [t \in 1..hd.ntok |->
                   [token |-> t - 1, dev |-> hd.dev, steps |-> hd.steps]]

\* Lines 259-266: self.lm_head(self.norm(distributed))[0] cast to float32;
\* the rows are those of the first device's copy.
LastLogits(hh, offsets, devices) ==
    LET h0 == hh[1]
        last_token_h == Gather(h0, LastTokenIndices(offsets))
        last_token_distributed == distribute_value(last_token_h, devices)
    IN last_token_distributed[1]

\* Lines 298-300: self.lm_head(self.norm(h))[0] cast to float32.
AllLogits(hh) == AllRows(hh[1])

\* Lines 272-296: the VARIABLE branch.
VariableOffsets(offsets, n) ==
    LET S == Len(offsets) - 1 IN
    [j \in 1..(S * n) |->
        offsets[((j - 1) \div n) + 2] - (n - ((j - 1) % n))]
VariableLogits(hh, offsets, n) == Gather(hh[1], VariableOffsets(offsets, n))
VariableLogitOffsets(offsets, n) ==
    [j \in 1..(Len(offsets)) |-> (j - 1) * n]

\* The returned tuple without the offsets.
ReturnTuple_DropsOffsets(last_logits, has_rest, logits, offsets) ==
    IF has_rest THEN <<last_logits, logits>> ELSE <<last_logits>>

\* Lines 303-306: the returned tuple.
ReturnTuple(last_logits, has_rest, logits, offsets) ==
    IF has_rest THEN <<last_logits, logits, offsets>> ELSE <<last_logits>>

\* Lines 259-306: the logit extraction on the final hidden states hh.
ForwardResult(slf, hh, inputs) ==
    LET offs == inputs.input_row_offsets
        last_logits == LastLogits(hh, offs, slf.devices)
    IN CASE slf.return_logits = VARIABLE_ ->
              ReturnTuple(last_logits, TRUE,
                  VariableLogits(hh, offs, inputs.return_n_logits),
                  VariableLogitOffsets(offs, inputs.return_n_logits))
         [] slf.return_logits = ALL ->
              ReturnTuple(last_logits, TRUE, AllLogits(hh), offs)
         [] OTHER ->
              ReturnTuple(last_logits, FALSE, <<>>, <<>>)

ExtractLogits ==
    /\ pc = "logits"
    /\ result' = ForwardResult(self, h, inp)
    /\ pc' = "returned"
    /\ UNCHANGED blockVars
    /\ UNCHANGED <<args, self, inp, h, kv_collections, input_row_offsets_,
                   subgraphs, idx>>

----------------------------------------------------------------------------
\* The layer stack: every layer list and group configuration, on MaxDev
\* devices, with one batch shape.
StackOffsets == {[i \in 1..(MaxSeqs + 1) |-> i - 1]}
StackArgs == ArgSet(LayerLists, {MaxDev}, {LAST_TOKEN, VARIABLE_}, GroupLists)
StackInputs == InputSet(StackOffsets, {MaxDev})

InitStackVars(argSet) ==
    /\ args \in argSet
    /\ self = NoModel
    /\ pc = "new"
    /\ inp = NoInput
    /\ h = <<>>
    /\ kv_collections = <<>>
    /\ input_row_offsets_ = <<>>
    /\ subgraphs = <<>>
    /\ idx = 0
    /\ result = <<>>

IdleBlockVars ==
    /\ bargs = [devices |-> 0]
    /\ block = [devices |-> 0]
    /\ bpc = "idle"
    /\ binp = [layer_idx |-> 0]
    /\ attn_outs = <<>>
    /\ hs = <<>>
    /\ norm_outs = <<>>
    /\ mlp_outs = <<>>
    /\ log = <<>>

Init == InitStackVars(StackArgs) /\ IdleBlockVars
Next ==
    \/ Transformer_init
    \/ Call_begin(StackInputs)
    \/ BuildSubgraph
    \/ BuildDone
    \/ LayerStep
    \/ LayersDone
    \/ ExtractLogits
Spec == Init /\ [][Next]_vars

\* The whole call: every device count, return mode and batch shape, with few
\* group configurations.
LogitsGroupLists == {<<>>, << <<0>> >>}
LogitsLayerLists == SeqUpTo({"blockA"}, MaxLayers)
LogitsOffsets == OffsetsSet \cup {<<0, 3, 5, 9>>, <<0, 4, 7>>}
LogitsArgs ==
    ArgSet(LogitsLayerLists, 1..MaxDev, ReturnLogits, LogitsGroupLists)
LogitsInputs == InputSet(LogitsOffsets, 1..MaxDev)

InitLogits ==
    InitStackVars(LogitsArgs) /\ IdleBlockVars
NextLogits ==
    \/ Transformer_init
    \/ Call_begin(LogitsInputs)
    \/ BuildSubgraph
    \/ BuildDone
    \/ LayerStep
    \/ LayersDone
    \/ ExtractLogits
SpecLogits == InitLogits /\ [][NextLogits]_vars

----------------------------------------------------------------------------
\* DistributedTransformerBlock.__init__

\* distributed_gemm_config: None, or a config with enable_matmul_allreduce
\* clear or set.
GemmConfigs == {"none", "disabled", "enabled"}

\* has_down_proj[i]: shard i of the MLP has a down_proj.weight.
BlockArgSet ==
    UNION {[devices : {n}, distributed_gemm_config : GemmConfigs,
            has_down_proj : [1..n -> BOOLEAN]] : n \in 1..MaxDev}

BlockInputSet == [layer_idx : 0..(MaxLayers - 1), xs : 1..MaxDev]

\* mlp.shard(devices): one shard per device.
ShardMlp(a) ==
    [i \in 1..a.devices |->
        [shard |-> i - 1, has_down_proj |-> a.has_down_proj[i]]]

\* Lines 70-83: every field is stored, nothing is checked.
Block_init ==
    /\ bpc = "new"
    /\ block' = [devices |-> bargs.devices,
                 distributed_gemm_config |-> bargs.distributed_gemm_config,
                 mlp_shards |-> ShardMlp(bargs)]
    /\ bpc' = "ready"
    /\ UNCHANGED stackVars
    /\ UNCHANGED <<bargs, binp, attn_outs, hs, norm_outs, mlp_outs, log>>

----------------------------------------------------------------------------
\* DistributedTransformerBlock.__call__

\* The caller's per-device hidden states.
InputStates(n) == [i \in 1..n |-> [slot |-> i - 1]]

\* self_attn(layer_idx, normed, ...): one output per normed input.
SelfAttention(layer_idx, normed) ==
    [i \in 1..Len(normed) |-> [of |-> normed[i].slot, layer_idx |-> layer_idx]]

\* Lines 95-101: input_layernorm, then self_attn.
Block_attention ==
    /\ bpc = "ready"
    /\ \E i \in BlockInputSet :
        /\ binp' = i
        /\ attn_outs' = SelfAttention(i.layer_idx, InputStates(i.xs))
    /\ log' = log \o <<"input_layernorm", "self_attn">>
    /\ bpc' = "attn_done"
    /\ UNCHANGED stackVars
    /\ UNCHANGED <<bargs, block, hs, norm_outs, mlp_outs>>

\* Line 103: hs = [x + attn_out for x, attn_out in zip(xs, attn_outs)].
Block_residual_attention ==
    /\ bpc = "attn_done"
    /\ hs' = LET z == Zip(InputStates(binp.xs), attn_outs) IN
             [k \in 1..Len(z) |-> [x |-> z[k][1].slot, attn |-> z[k][2].of]]
    /\ log' = Append(log, "add")
    /\ bpc' = "residual_done"
    /\ UNCHANGED stackVars
    /\ UNCHANGED <<bargs, block, binp, attn_outs, norm_outs, mlp_outs>>

\* Line 105: norm_outs = self.post_attention_layernorm(hs).
Block_post_attention_layernorm ==
    /\ bpc = "residual_done"
    /\ norm_outs' = [k \in 1..Len(hs) |-> [normed |-> hs[k]]]
    /\ log' = Append(log, "post_attention_layernorm")
    /\ bpc' = "norm_done"
    /\ UNCHANGED stackVars
    /\ UNCHANGED <<bargs, block, binp, attn_outs, hs, mlp_outs>>

\* Lines 106-109: shard i applied to norm_outs[i], for every shard.
Block_mlp ==
    /\ bpc = "norm_done"
    /\ IF Len(norm_outs) < Len(block.mlp_shards)
       THEN /\ bpc' = "call_error"                    \* IndexError
            /\ UNCHANGED <<mlp_outs, log>>
       ELSE /\ mlp_outs' = [i \in 1..Len(block.mlp_shards) |->
                               [shard |-> block.mlp_shards[i].shard,
                                input |-> norm_outs[i]]]
            /\ log' = Append(log, "mlp")
            /\ bpc' = "mlp_done"
    /\ UNCHANGED stackVars
    /\ UNCHANGED <<bargs, block, binp, attn_outs, hs, norm_outs>>

\* The reduction chosen whenever enable_matmul_allreduce is not set to true.
UsesAllreduce_OnlyWithoutConfig(cfg) == cfg = "none"

\* Lines 111-114: the condition that selects the plain allreduce.
UsesAllreduce(cfg) == cfg = "none" \/ cfg # "enabled"

\* allreduce / matmul_allreduce: slot i holds the combination of every partial.
Reduced(op, partials) ==
    [i \in 1..Len(partials) |-> [slot |-> i - 1, op |-> op, parts |-> partials]]

\* Lines 111-124: the reduction.
Block_reduce ==
    /\ bpc = "mlp_done"
    /\ IF UsesAllreduce(block.distributed_gemm_config)
       THEN /\ mlp_outs' = Reduced("allreduce", mlp_outs)
            /\ log' = Append(log, "allreduce")
            /\ bpc' = "reduce_done"
       ELSE IF \E i \in 1..Len(block.mlp_shards) :
                   ~block.mlp_shards[i].has_down_proj
            THEN /\ bpc' = "call_error"               \* AttributeError
                 /\ UNCHANGED <<mlp_outs, log>>
            ELSE /\ mlp_outs' = Reduced("matmul_allreduce", mlp_outs)
                 /\ log' = Append(log, "matmul_allreduce")
                 /\ bpc' = "reduce_done"
    /\ UNCHANGED stackVars
    /\ UNCHANGED <<bargs, block, binp, attn_outs, hs, norm_outs>>

\* Lines 126-128: hs = [h + mlp_out for h, mlp_out in zip(hs, mlp_outs)].
Block_residual_mlp ==
    /\ bpc = "reduce_done"
    /\ hs' = LET z == Zip(hs, mlp_outs) IN
             [k \in 1..Len(z) |-> [h |-> z[k][1], mlp |-> z[k][2]]]
    /\ log' = Append(log, "add")
    /\ bpc' = "returned"
    /\ UNCHANGED stackVars
    /\ UNCHANGED <<bargs, block, binp, attn_outs, norm_outs, mlp_outs>>

IdleStackVars ==
    /\ args = [layers |-> <<>>]
    /\ self = NoModel
    /\ pc = "idle"
    /\ inp = NoInput
    /\ h = <<>>
    /\ kv_collections = <<>>
    /\ input_row_offsets_ = <<>>
    /\ subgraphs = <<>>
    /\ idx = 0
    /\ result = <<>>

InitBlock ==
    /\ IdleStackVars
    /\ bargs \in BlockArgSet
    /\ block = [devices |-> 0]
    /\ bpc = "new"
    /\ binp = [layer_idx |-> 0]
    /\ attn_outs = <<>>
    /\ hs = <<>>
    /\ norm_outs = <<>>
    /\ mlp_outs = <<>>
    /\ log = <<>>

NextBlock ==
    \/ Block_init
    \/ Block_attention
    \/ Block_residual_attention
    \/ Block_post_attention_layernorm
    \/ Block_mlp
    \/ Block_reduce
    \/ Block_residual_mlp

SpecBlock == InitBlock /\ [][NextBlock]_vars

----------------------------------------------------------------------------
\* Properties of the DistributedTransformerBlock.

IsPrefix(s, t) == Len(s) <= Len(t) /\ \A k \in 1..Len(s) : s[k] = t[k]

Reductions == {k \in 1..Len(log) : log[k] \in {"allreduce", "matmul_allreduce"}}

\* The steps of one block call, with the reduction the configuration selects.
ExpectedLog(cfg) ==
    <<"input_layernorm", "self_attn", "add", "post_attention_layernorm", "mlp",
      IF cfg \in {"none", "disabled"} THEN "allreduce" ELSE "matmul_allreduce",
      "add">>

\* C8 as claimed: a block whose fused path is enabled while some MLP shard has
\* no down_proj.weight is never constructed.
C8_MissingWeightRejectedAtConstruction ==
    bpc \notin {"new", "ctor_error"} =>
        ~(/\ block.distributed_gemm_config = "enabled"
          /\ \E i \in 1..Len(block.mlp_shards) :
                ~block.mlp_shards[i].has_down_proj)

\* C10: a block call performs its steps in the fixed order, with exactly one
\* reduction, the plain allreduce unless enable_matmul_allreduce is set; slot i
\* of the result comes from slot i of the input, of the attention output and
\* of the reduced result, and MLP shard i worked on slot i.
C10_BlockStepOrder ==
    /\ bpc # "new" =>
          /\ IsPrefix(log, ExpectedLog(block.distributed_gemm_config))
          /\ Cardinality(Reductions) <= 1
    /\ bpc = "returned" =>
          /\ log = ExpectedLog(block.distributed_gemm_config)
          /\ Cardinality(Reductions) = 1
          /\ \A k \in 1..Len(hs) :
                /\ hs[k].h.x = k - 1
                /\ hs[k].h.attn = k - 1
                /\ hs[k].mlp.slot = k - 1
                /\ hs[k].mlp.op = log[6]
                /\ hs[k].mlp.parts[k].shard = k - 1
                /\ hs[k].mlp.parts[k].input.normed.x = k - 1

C10_Witness ==
    /\ bpc = "returned"
    /\ block.distributed_gemm_config = "disabled"
    /\ block.devices = MaxDev
    /\ Len(hs) = MaxDev
    /\ log[6] = "allreduce"

----------------------------------------------------------------------------
\* Properties of the DistributedTransformer.

InCall == pc \in {"build", "layers", "logits", "returned", "call_error"}
NumLayers == Len(self.layers)
Offsets == inp.input_row_offsets
NumSeqs == Len(Offsets) - 1
Embedded == embed_tokens(self.devices, Offsets[Len(Offsets)])

\* C1: construction with return_logits = VARIABLE always fails, whatever the
\* other arguments; no model with that mode exists, so no forward pass runs
\* on one.
C1_VariableModeNeverConstructed ==
    /\ (args.return_logits = VARIABLE_ /\ pc # "new")
          => (pc = "ctor_error" /\ self = NoModel)
    /\ self.return_logits # VARIABLE_
    /\ InCall => args.return_logits # VARIABLE_

C1_Witness ==
    /\ pc = "ctor_error"
    /\ args.return_logits = VARIABLE_
    /\ args.use_subgraphs
    /\ ~args.groups_is_none
    /\ Len(args.subgraph_layer_groups) = MaxGroups
    /\ Len(args.layers) = MaxLayers

\* The groups are non-empty, their members are layers, and every member has
\* the block structure of the group's first member.
GroupsWellFormed(slf) ==
    \A g \in 1..Len(slf.subgraph_layer_groups) :
        LET grp == slf.subgraph_layer_groups[g] IN
        /\ Len(grp) > 0
        /\ \A m \in Range(grp) : m < Len(slf.layers)
        /\ \A m \in Range(grp) :
              /\ IsDistributedTransformerBlock(slf.layers[m + 1])
              /\ slf.layers[m + 1] = slf.layers[grp[1] + 1]

\* C2: with well-formed groups, a subgraph-mode forward pass applies exactly
\* the layer steps of a direct-mode pass: one step per layer index, in
\* increasing order, each with its own runtime index and its own weights; the
\* final hidden states and the returned tuple equal those of direct mode.
C2_SubgraphModeEqualsDirectMode ==
    (InCall /\ self.use_subgraphs /\ GroupsWellFormed(self)) =>
        /\ pc # "call_error"
        /\ pc = "build" => h = Embedded
        /\ pc = "layers" => h = DirectStack(self.layers, Embedded, idx)
        /\ pc \in {"logits", "returned"} =>
              h = DirectStack(self.layers, Embedded, NumLayers)
        /\ \A d \in 1..Len(h) : \A k \in 1..Len(h[d].steps) :
              h[d].steps[k] = [kind |-> self.layers[k], weights |-> k - 1,
                               layer_idx |-> k - 1]
        /\ pc = "returned" =>
              result = ForwardResult(self,
                           DirectStack(self.layers, Embedded, NumLayers), inp)

C2_Witness ==
    /\ pc = "returned"
    /\ self.use_subgraphs
    /\ GroupsWellFormed(self)
    /\ NumLayers = MaxLayers
    /\ \E g \in 1..Len(self.subgraph_layer_groups) :
          Len(self.subgraph_layer_groups[g]) >= 2

\* C3: a forward pass returns (last_logits,) in LAST_TOKEN mode and
\* (last_logits, logits, offsets) in ALL mode, logits with one row per token
\* and offsets the input row offsets; no other arity, in either execution
\* mode.
C3_ReturnedTuple ==
    pc = "returned" =>
        /\ Len(result) \in {1, 3}
        /\ result[1] = LastLogits(h, Offsets, self.devices)
        /\ self.return_logits = LAST_TOKEN => Len(result) = 1
        /\ self.return_logits = ALL =>
              /\ Len(result) = 3
              /\ Len(result[2]) = Offsets[Len(Offsets)]
              /\ \A t \in 1..Len(result[2]) : result[2][t].token = t - 1
              /\ result[3] = Offsets

C3_Witness ==
    /\ pc = "returned"
    /\ self.return_logits = ALL
    /\ self.use_subgraphs
    /\ Len(result) = 3
    /\ Len(result[2]) = MaxTok
    /\ NumSeqs = MaxSeqs

\* C4: last_logits has one row per sequence, row i taken from token
\* offsets[i+1] - 1 of the first device's final hidden state.
C4_LastTokenGather ==
    pc = "returned" =>
        /\ Len(result[1]) = NumSeqs
        /\ \A i \in 1..NumSeqs :
              /\ result[1][i].token = Offsets[i + 1] - 1
              /\ result[1][i].dev = 0
              /\ result[1][i].steps = h[1].steps
        /\ Offsets = <<0, 3, 5, 9>> =>
              [i \in 1..3 |-> result[1][i].token] = <<2, 4, 8>>
        /\ Offsets = <<0, 4, 7>> =>
              [i \in 1..2 |-> result[1][i].token] = <<3, 6>>

C4_Witness ==
    /\ pc = "returned"
    /\ Offsets = <<0, 3, 5, 9>>
    /\ self.devices = MaxDev
    /\ NumLayers = MaxLayers

\* C5 as claimed: the index gathered for sequence i is the index of a token
\* of sequence i, also when the sequence is empty.
C5_IndexInsideSequence ==
    pc = "returned" =>
        \A i \in 1..NumSeqs :
            /\ Offsets[i] <= result[1][i].token
            /\ result[1][i].token < Offsets[i + 1]

\* C5 as amended: the index gathered for a sequence that has at least one
\* token is the index of its last token; for an empty sequence the index is
\* offsets[i] - 1, the token before the sequence (-1 when there is none).
C5_IndexInsideNonEmptySequence ==
    pc = "returned" =>
        \A i \in 1..NumSeqs :
            /\ Offsets[i] < Offsets[i + 1] =>
                  /\ Offsets[i] <= result[1][i].token
                  /\ result[1][i].token < Offsets[i + 1]
            /\ Offsets[i] = Offsets[i + 1] =>
                  result[1][i].token = Offsets[i] - 1

C5_Witness ==
    /\ pc = "returned"
    /\ \E i \in 1..NumSeqs : Offsets[i] = Offsets[i + 1]
    /\ \E i \in 1..NumSeqs : Offsets[i] < Offsets[i + 1]

\* C6 as claimed: on every model on which a subgraph-mode forward pass runs,
\* the groups are pairwise disjoint.
C6_GroupsPairwiseDisjoint ==
    (pc = "returned" /\ self.use_subgraphs) =>
        \A g1, g2 \in 1..Len(self.subgraph_layer_groups) :
            g1 # g2 => Range(self.subgraph_layer_groups[g1])
                         \cap Range(self.subgraph_layer_groups[g2]) = {}

\* A group is empty, or its template layer is not a transformer block.
HasBadGroup(layers, groups) ==
    \E g \in 1..Len(groups) :
        \/ Len(groups[g]) = 0
        \/ /\ groups[g][1] < Len(layers)
           /\ ~IsDistributedTransformerBlock(layers[groups[g][1] + 1])

C9_PerDeviceListsMatchDevices ==
    InCall =>
        /\ Len(h) = self.devices
        /\ Len(kv_collections) = self.devices
        /\ Len(input_row_offsets_) = self.devices

====
